---- MODULE Spec2Model ----
(***************************************************************************)
(* N.E.S.T collaboration network graph (app/static/js/network_graph.js).   *)
(*                                                                         *)
(* The page script fetches /graph/data once, renders a force-directed      *)
(* graph and installs its event handlers.  Every handler runs to           *)
(* completion on the UI event loop, so each handler is one action.         *)
(*                                                                         *)
(* Units: opacities are in hundredths (0.08 -> 8, 1 -> 100), zoom scale    *)
(* and simulation alpha are in tenths (0.2 -> 2, 5 -> 50, 0.3 -> 3),       *)
(* lengths are in pixels.                                                  *)
(***************************************************************************)
EXTENDS Integers, Sequences, FiniteSets, TLC

(***************************************************************************)
(* Bounds of the model.                                                    *)
(***************************************************************************)
MaxTermLen == 2     \* longest search term typed
MaxSize == 2        \* the container takes MaxSize different sizes
MaxPos == 1         \* node and pointer positions: MaxPos + 1 sample points
MaxPan == 1         \* pan offsets range over 0..MaxPan on the diagonal
MaxPointers == 2    \* simultaneous pointers (mouse, touches)

(***************************************************************************)
(* Program constants.                                                      *)
(***************************************************************************)
FullOpacity == 100
DimOpacity == 8
RingOpacityHi == 100
RingWidthHi == 4
RingOpacityBase == 30
RingWidthBase == 2
LinkDimOpacity == 25
ScaleMin == 2
ScaleMax == 50
AlphaInit == 10
AlphaMin == 1
ReheatAlpha == 3
DragAlphaTarget == 3
\* an attribute that was never set on an element
NoAttr == -1
\* JavaScript null / undefined in a node's fx, fy
Null == -2

(***************************************************************************)
(* Strings are sequences of characters; String.prototype.toLowerCase and   *)
(* String.prototype.includes as the filter uses them.                      *)
(***************************************************************************)
TermChars == {"A", "d"}

LowerChar(c) ==
    CASE c = "A" -> "a"
      [] c = "D" -> "d"
      [] OTHER -> c

toLowerCase(s) == [i \in 1..Len(s) |-> LowerChar(s[i])]

includes(s, t) ==
    \E i \in 0..(Len(s) - Len(t)) : SubSeq(s, i + 1, i + Len(t)) = t

Terms == UNION {[1..k -> TermChars] : k \in 0..MaxTermLen}

(***************************************************************************)
(* Payloads the data endpoint may deliver.                                 *)
(***************************************************************************)
Ada == [id |-> 1, name |-> <<"A", "d", "a">>, department |-> "Eng",
        archetype |-> "Builder", collab_count |-> 5]
Dan == [id |-> 2, name |-> <<"D", "a", "n">>, department |-> "Ops",
        archetype |-> "Researcher", collab_count |-> 0]

GraphEmpty == [nodes |-> <<>>, links |-> <<>>]
GraphOne == [nodes |-> <<Ada>>, links |-> <<>>]
GraphTwo == [nodes |-> <<Ada, Dan>>,
             links |-> <<[source |-> 1, target |-> 2, weight |-> 2]>>]
GraphDangling == [nodes |-> <<Ada, Dan>>,
                  links |-> <<[source |-> 1, target |-> 3, weight |-> 1]>>]

Payloads == {GraphEmpty, GraphOne, GraphTwo, GraphDangling}

\* further payloads for the scales: three distinct counts and weights, and
\* one graph whose nodes share a count and whose only link has weight 1
Eve == [id |-> 3, name |-> <<"E", "v", "e">>, department |-> "Eng",
        archetype |-> "Researcher", collab_count |-> 2]
Bob == [id |-> 4, name |-> <<"B", "o", "b">>, department |-> "Ops",
        archetype |-> "Builder", collab_count |-> 5]
GraphThree == [nodes |-> <<Ada, Dan, Eve>>,
               links |-> <<[source |-> 1, target |-> 2, weight |-> 2],
                           [source |-> 2, target |-> 3, weight |-> 1],
                           [source |-> 1, target |-> 3, weight |-> 3]>>]
GraphFlat == [nodes |-> <<Ada, Bob>>,
              links |-> <<[source |-> 1, target |-> 4, weight |-> 1]>>]
ScalePayloads == {GraphOne, GraphTwo, GraphThree, GraphFlat}

ContainerSizes == {[w |-> 200 * i, h |-> 100 * i + 100] : i \in 1..MaxSize}
PanOffsets == {[x |-> i, y |-> 0 - i] : i \in 0..MaxPan}
\* sample points of the plane, none with x = y when MaxPos is odd
Points == {[x |-> i, y |-> MaxPos - i] : i \in 0..MaxPos}
Pointers == 1..MaxPointers
ZoomRequests == {ScaleMin - 1, 10, ScaleMax + 1}

VARIABLES
    fetchState,      \* "pending" | "resolved" | "rejected"
    errorLog,        \* console.error messages
    clientW, clientH,\* wrapper.clientWidth / clientHeight (the container)
    width, height,   \* the script's width / height variables
    searchValue, deptValue, archValue,   \* the three filter inputs
    deptOptions, archOptions, legend,    \* entries appended by render
    placeholder,     \* the "network is empty" text is in the svg
    sceneGroups,     \* g, g.links and g.nodes are in the svg
    zoomBound,       \* the zoom behaviour is bound to the svg
    drawn,           \* link lines and node groups are joined to the data
    handlers,        \* render installed its listeners
    nodes, links,    \* the data passed to render
    opacity,         \* per node: the group's target opacity
    ringOpacity, ringWidth,   \* per node: the glow ring's stroke
    linkOpacity,     \* per link: target stroke-opacity
    simExists, alpha, alphaTarget, timerOn, center,   \* the simulation
    pos, vel, pin,   \* per node: [x, y], [vx, vy], [fx, fy]
    gestures,        \* per pointer: the node it drags, 0 when none
    transform,       \* the scene's zoom transform [k, x, y]
    sidebarOpen, sidebarContent,   \* the detail panel
    lastClick,       \* history: the latest click, [kind, node]
    tooltipShown, tooltipContent,  \* the tooltip's display and the node shown
    tooltipLeft, tooltipTop,       \* the tooltip's style.left / style.top, px
    maxCollab, maxWeight,          \* render's constants behind the two scales
    nodeR, linkW     \* per node: circle r; per link: stroke-width (hundredths)

loadVars == <<fetchState, errorLog, nodes, links>>
sizeVars == <<width, height>>
inputVars == <<searchValue, deptValue, archValue>>
domVars == <<deptOptions, archOptions, legend, placeholder, sceneGroups,
             zoomBound, drawn, handlers>>
filterVars == <<opacity, ringOpacity, ringWidth, linkOpacity>>
simVars == <<simExists, alpha, alphaTarget, timerOn, center>>
nodeVars == <<pos, vel, pin>>
panelVars == <<sidebarOpen, sidebarContent>>
tipVars == <<tooltipShown, tooltipContent, tooltipLeft, tooltipTop>>
scaleVars == <<maxCollab, maxWeight, nodeR, linkW>>

vars == <<loadVars, clientW, clientH, sizeVars, inputVars, domVars,
          filterVars, simVars, nodeVars, gestures, transform, panelVars,
          lastClick, tipVars, scaleVars>>

NodeIx == 1..Len(nodes)
NoPin == [fx |-> Null, fy |-> Null]
NoClick == [kind |-> "none", node |-> 0]

(***************************************************************************)
(* State after the script's top level ran: DOM references taken, width and *)
(* height read from the wrapper, the fetch in flight.  The search box may  *)
(* be typed into at any time; the selects hold only their "any" option.    *)
(***************************************************************************)
Init ==
    /\ fetchState = "pending"
    /\ errorLog = <<>>
    /\ \E c \in ContainerSizes : clientW = c.w /\ clientH = c.h
    /\ width = clientW /\ height = clientH
    /\ searchValue = <<>> /\ deptValue = "" /\ archValue = ""
    /\ deptOptions = {} /\ archOptions = {} /\ legend = {}
    /\ placeholder = FALSE /\ sceneGroups = FALSE /\ zoomBound = FALSE
    /\ drawn = FALSE /\ handlers = FALSE
    /\ nodes = <<>> /\ links = <<>>
    /\ opacity = <<>> /\ ringOpacity = <<>> /\ ringWidth = <<>>
    /\ linkOpacity = <<>>
    /\ simExists = FALSE /\ alpha = 0 /\ alphaTarget = 0 /\ timerOn = FALSE
    /\ center = <<0, 0>>
    /\ pos = <<>> /\ vel = <<>> /\ pin = <<>>
    /\ gestures = [p \in Pointers |-> 0]
    /\ transform = [k |-> 10, x |-> 0, y |-> 0]
    /\ sidebarOpen = FALSE /\ sidebarContent = 0
    /\ lastClick = NoClick
    /\ tooltipShown = FALSE /\ tooltipContent = 0
    /\ tooltipLeft = 0 /\ tooltipTop = 0
    /\ maxCollab = 0 /\ maxWeight = 0
    /\ nodeR = <<>> /\ linkW = <<>>

(***************************************************************************)
(* fetch("/graph/data").then(r => r.json()).then(render).catch(log):       *)
(* a rejected fetch or an unparsable body goes to the catch handler, which  *)
(* logs and does nothing else.  There is no second fetch.                   *)
(***************************************************************************)
FetchFailures == {"network", "parse"}

LogEntry == "Graph data fetch failed:"

\* faulty variant: the catch handler swallows the error
fetchRejectedSilently(kind) ==
    /\ fetchState = "pending"
    /\ kind \in FetchFailures
    /\ fetchState' = "rejected"
    /\ UNCHANGED <<errorLog, nodes, links, clientW, clientH, sizeVars,
                   inputVars, domVars, filterVars, simVars, nodeVars,
                   gestures, transform, panelVars, lastClick, tipVars, scaleVars>>

fetchRejected(kind) ==
    /\ fetchState = "pending"
    /\ kind \in FetchFailures
    /\ fetchState' = "rejected"
    /\ errorLog' = Append(errorLog, LogEntry)
    /\ UNCHANGED <<nodes, links, clientW, clientH, sizeVars, inputVars,
                   domVars, filterVars, simVars, nodeVars, gestures,
                   transform, panelVars, lastClick, tipVars, scaleVars>>

(***************************************************************************)
(* render(data).  d3.forceLink resolves each link's source and target id   *)
(* to a node when the force is registered with the simulation and throws   *)
(* "node not found" for an id no node has; the exception leaves render at  *)
(* the .force("link", ...) call and reaches the catch handler.             *)
(***************************************************************************)
NodeIds(g) == {g.nodes[i].id : i \in 1..Len(g.nodes)}

LinksResolve(g) ==
    \A j \in 1..Len(g.links) :
        g.links[j].source \in NodeIds(g) /\ g.links[j].target \in NodeIds(g)

departments(g) == {g.nodes[i].department : i \in 1..Len(g.nodes)}
archetypes(g) == {g.nodes[i].archetype : i \in 1..Len(g.nodes)}

\* d3 places new nodes on a deterministic spiral, at rest and unpinned
InitPos(i) ==
    [x |-> (i - 1) % (MaxPos + 1), y |-> MaxPos - ((i - 1) % (MaxPos + 1))]

\* faulty variant: the early return is missing, render goes on with no nodes
renderEmptyFallsThrough ==
    /\ placeholder' = TRUE
    /\ sceneGroups' = TRUE /\ zoomBound' = TRUE
    /\ drawn' = TRUE /\ handlers' = TRUE
    /\ simExists' = TRUE /\ alpha' = AlphaInit /\ timerOn' = TRUE
    /\ center' = <<width \div 2, height \div 2>>
    /\ UNCHANGED <<errorLog, deptOptions, archOptions, legend, filterVars,
                   alphaTarget, nodeVars, scaleVars>>

renderEmpty ==
    /\ placeholder' = TRUE
    /\ UNCHANGED <<errorLog, deptOptions, archOptions, legend, sceneGroups,
                   zoomBound, drawn, handlers, filterVars, simVars, nodeVars,
                   scaleVars>>

(***************************************************************************)
(* The two scales, in hundredths of a pixel.  d3.max of no values is       *)
(* undefined, and "|| 1" replaces undefined and 0 by 1.  A d3 linear scale *)
(* whose domain has zero width maps every input to the middle of its       *)
(* range; otherwise it interpolates, unclamped.                            *)
(***************************************************************************)
RadiusMin == 600
RadiusMax == 2200
LinkWidthMin == 150
LinkWidthMax == 600

d3max(S) == IF S = {} THEN 0 ELSE CHOOSE m \in S : \A v \in S : v <= m
orOne(v) == IF v = 0 THEN 1 ELSE v

scaleLinear(d0, d1, r0, r1, v) ==
    IF d1 = d0 THEN (r0 + r1) \div 2
               ELSE r0 + ((v - d0) * (r1 - r0)) \div (d1 - d0)

\* faulty variant: the range is given the wrong way round
nodeRadiusReversed(mc, c) == scaleLinear(0, mc, RadiusMax, RadiusMin, c)

nodeRadius(mc, c) == scaleLinear(0, mc, RadiusMin, RadiusMax, c)
linkWidth(mw, w) == scaleLinear(1, mw, LinkWidthMin, LinkWidthMax, w)

\* lines 58-105: everything render does up to creating the simulation
renderScene(g) ==
    /\ deptOptions' = departments(g)
    /\ archOptions' = archetypes(g)
    /\ legend' = archetypes(g)
    /\ sceneGroups' = TRUE
    /\ zoomBound' = TRUE
    /\ simExists' = TRUE
    /\ alpha' = AlphaInit
    /\ alphaTarget' = 0
    /\ timerOn' = TRUE
    /\ pos' = [i \in 1..Len(g.nodes) |-> InitPos(i)]
    /\ vel' = [i \in 1..Len(g.nodes) |-> [vx |-> 0, vy |-> 0]]
    /\ pin' = [i \in 1..Len(g.nodes) |-> NoPin]
    /\ maxCollab' = orOne(d3max({g.nodes[i].collab_count : i \in 1..Len(g.nodes)}))
    /\ maxWeight' = orOne(d3max({g.links[j].weight : j \in 1..Len(g.links)}))
    /\ UNCHANGED placeholder

\* lines 106-302: forces, drawing and listeners
renderRest(g) ==
    /\ center' = <<width \div 2, height \div 2>>
    /\ drawn' = TRUE
    /\ handlers' = TRUE
    /\ opacity' = [i \in 1..Len(g.nodes) |-> NoAttr]
    /\ ringOpacity' = [i \in 1..Len(g.nodes) |-> RingOpacityBase]
    /\ ringWidth' = [i \in 1..Len(g.nodes) |-> RingWidthBase]
    /\ linkOpacity' = [j \in 1..Len(g.links) |-> NoAttr]
    /\ nodeR' = [i \in 1..Len(g.nodes) |->
                    nodeRadius(maxCollab', g.nodes[i].collab_count)]
    /\ linkW' = [j \in 1..Len(g.links) |->
                    linkWidth(maxWeight', g.links[j].weight)]
    /\ UNCHANGED errorLog

\* the throw at line 106, caught at line 42
renderThrows ==
    /\ errorLog' = Append(errorLog, LogEntry)
    /\ UNCHANGED <<center, drawn, handlers, filterVars, nodeR, linkW>>

render(g) ==
    /\ fetchState = "pending"
    /\ fetchState' = "resolved"
    /\ nodes' = g.nodes
    /\ links' = g.links
    /\ IF Len(g.nodes) = 0
         THEN renderEmpty
         ELSE /\ renderScene(g)
              /\ IF LinksResolve(g) THEN renderRest(g) ELSE renderThrows
    /\ UNCHANGED <<clientW, clientH, sizeVars, inputVars, gestures,
                   transform, panelVars, lastClick, tipVars>>

(***************************************************************************)
(* Search and filter.                                                      *)
(***************************************************************************)
matchSearch(d, searchTerm) ==
    searchTerm = <<>> \/ includes(toLowerCase(d.name), searchTerm)

matchDept(d, dept) == dept = "" \/ d.department = dept

matchArch(d, arch) == arch = "" \/ d.archetype = arch

\* faulty variant: the department filter is left out of the conjunction
visibleIgnoringDept(d, searchTerm, dept, arch) ==
    matchSearch(d, searchTerm) /\ matchArch(d, arch)

visible(d, searchTerm, dept, arch) ==
    matchSearch(d, searchTerm) /\ matchDept(d, dept) /\ matchArch(d, arch)

\* faulty variant: the name is compared without lower-casing it
highlightedCaseSensitive(d, searchTerm) ==
    searchTerm # <<>> /\ includes(d.name, searchTerm)

highlighted(d, searchTerm) ==
    searchTerm # <<>> /\ includes(toLowerCase(d.name), searchTerm)

dimmedLinkOpacity == LinkDimOpacity

\* faulty variant: the else branch that restores the baseline ring is missing
applyFiltersNoRingReset(sv, dv, av) ==
    LET searchTerm == toLowerCase(sv) IN
    /\ opacity' = [i \in NodeIx |->
                     IF visible(nodes[i], searchTerm, dv, av)
                       THEN FullOpacity ELSE DimOpacity]
    /\ ringOpacity' = [i \in NodeIx |->
                         IF highlighted(nodes[i], searchTerm)
                           THEN RingOpacityHi ELSE ringOpacity[i]]
    /\ ringWidth' = [i \in NodeIx |->
                       IF highlighted(nodes[i], searchTerm)
                         THEN RingWidthHi ELSE ringWidth[i]]
    /\ linkOpacity' = [j \in 1..Len(links) |-> dimmedLinkOpacity]

\* faulty variant: a link between two visible nodes is shown at full opacity
applyFiltersLinksFollowNodes(sv, dv, av) ==
    LET searchTerm == toLowerCase(sv)
        shown(id) == \E i \in NodeIx : /\ nodes[i].id = id
                                        /\ visible(nodes[i], searchTerm, dv, av)
    IN
    /\ opacity' = [i \in NodeIx |->
                     IF visible(nodes[i], searchTerm, dv, av)
                       THEN FullOpacity ELSE DimOpacity]
    /\ ringOpacity' = [i \in NodeIx |->
                         IF highlighted(nodes[i], searchTerm)
                           THEN RingOpacityHi ELSE RingOpacityBase]
    /\ ringWidth' = [i \in NodeIx |->
                       IF highlighted(nodes[i], searchTerm)
                         THEN RingWidthHi ELSE RingWidthBase]
    /\ linkOpacity' = [j \in 1..Len(links) |->
                         IF shown(links[j].source) /\ shown(links[j].target)
                           THEN FullOpacity ELSE dimmedLinkOpacity]

\* applyFilters, reading the inputs' values sv, dv, av
applyFilters(sv, dv, av) ==
    LET searchTerm == toLowerCase(sv) IN
    /\ opacity' = [i \in NodeIx |->
                     IF visible(nodes[i], searchTerm, dv, av)
                       THEN FullOpacity ELSE DimOpacity]
    /\ ringOpacity' = [i \in NodeIx |->
                         IF highlighted(nodes[i], searchTerm)
                           THEN RingOpacityHi ELSE RingOpacityBase]
    /\ ringWidth' = [i \in NodeIx |->
                       IF highlighted(nodes[i], searchTerm)
                         THEN RingWidthHi ELSE RingWidthBase]
    /\ linkOpacity' = [j \in 1..Len(links) |-> dimmedLinkOpacity]

\* an input's event reaches applyFilters only once render added the listener
onFilterInput(sv, dv, av) ==
    IF handlers THEN applyFilters(sv, dv, av) ELSE UNCHANGED filterVars

filterFrame ==
    UNCHANGED <<loadVars, clientW, clientH, sizeVars, domVars, simVars,
                nodeVars, gestures, transform, panelVars, lastClick, tipVars, scaleVars>>

searchInputEvent(t) ==
    /\ t \in Terms
    /\ searchValue' = t
    /\ UNCHANGED <<deptValue, archValue>>
    /\ onFilterInput(t, deptValue, archValue)
    /\ filterFrame

filterDeptChange(d) ==
    /\ d \in {""} \cup deptOptions
    /\ deptValue' = d
    /\ UNCHANGED <<searchValue, archValue>>
    /\ onFilterInput(searchValue, d, archValue)
    /\ filterFrame

filterArchChange(a) ==
    /\ a \in {""} \cup archOptions
    /\ archValue' = a
    /\ UNCHANGED <<searchValue, deptValue>>
    /\ onFilterInput(searchValue, deptValue, a)
    /\ filterFrame

(***************************************************************************)
(* Detail panel.                                                           *)
(***************************************************************************)
clickFrame ==
    UNCHANGED <<loadVars, clientW, clientH, sizeVars, inputVars, domVars,
                filterVars, simVars, nodeVars, gestures, transform, tipVars,
                scaleVars>>

\* faulty variant: no stopPropagation, the svg's click handler runs after the node's
openSidebarBubbling(i) ==
    /\ sidebarContent' = nodes[i].id
    /\ sidebarOpen' = FALSE

\* the node click handler; stopPropagation keeps the svg handler from running
openSidebar(i) ==
    /\ sidebarContent' = nodes[i].id
    /\ sidebarOpen' = TRUE

nodeClick(i) ==
    /\ drawn
    /\ i \in NodeIx
    /\ openSidebar(i)
    /\ lastClick' = [kind |-> "node", node |-> nodes[i].id]
    /\ clickFrame

closeSidebar ==
    /\ sidebarOpen' = FALSE
    /\ UNCHANGED sidebarContent

\* a click on the svg outside every node
canvasClick ==
    /\ IF handlers THEN closeSidebar ELSE UNCHANGED panelVars
    /\ lastClick' = [kind |-> "canvas", node |-> 0]
    /\ clickFrame

\* a click on the panel's close control
closeClick ==
    /\ IF handlers THEN closeSidebar ELSE UNCHANGED panelVars
    /\ lastClick' = [kind |-> "close", node |-> 0]
    /\ clickFrame

(***************************************************************************)
(* Hover tooltip.  mouseenter fills the tooltip and shows it, mousemove    *)
(* places it relative to the wrapper from the pointer's offset inside the  *)
(* wrapper, testing against the script's width and height, and mouseleave  *)
(* hides it.  The pointer is over a node exactly while the tooltip shows.  *)
(***************************************************************************)
TooltipOffset == 16
TooltipBoxW == 200
TooltipBoxH == 180
TooltipFlipX == 220
TooltipFlipY == 200

tipFrame ==
    UNCHANGED <<loadVars, clientW, clientH, sizeVars, inputVars, domVars,
                filterVars, gestures, transform, panelVars, lastClick,
                scaleVars>>

\* faulty variant: showing the tooltip also reheats the simulation
showTooltipReheating(i) ==
    /\ tooltipContent' = nodes[i].id
    /\ tooltipShown' = TRUE
    /\ alpha' = ReheatAlpha /\ timerOn' = TRUE
    /\ UNCHANGED <<tooltipLeft, tooltipTop, simExists, alphaTarget, center,
                   nodeVars>>

showTooltip(i) ==
    /\ tooltipContent' = nodes[i].id
    /\ tooltipShown' = TRUE
    /\ UNCHANGED <<tooltipLeft, tooltipTop, simVars, nodeVars>>

\* px, py: event.clientX - rect.left and event.clientY - rect.top
moveTooltip(px, py) ==
    LET x == px + TooltipOffset
        y == py + TooltipOffset
    IN  /\ tooltipLeft' = IF x + TooltipBoxW > width THEN x - TooltipFlipX ELSE x
        /\ tooltipTop' = IF y + TooltipBoxH > height THEN y - TooltipFlipY ELSE y
        /\ UNCHANGED <<tooltipShown, tooltipContent, simVars, nodeVars>>

hideTooltip ==
    /\ tooltipShown' = FALSE
    /\ UNCHANGED <<tooltipContent, tooltipLeft, tooltipTop, simVars, nodeVars>>

mouseenter(i) ==
    /\ drawn
    /\ i \in NodeIx
    /\ ~tooltipShown
    /\ showTooltip(i)
    /\ tipFrame

mousemove(px, py) ==
    /\ drawn
    /\ tooltipShown
    /\ px \in 0..clientW /\ py \in 0..clientH
    /\ moveTooltip(px, py)
    /\ tipFrame

mouseleave ==
    /\ drawn
    /\ tooltipShown
    /\ hideTooltip
    /\ tipFrame

\* pointer offsets inside the wrapper: its corners and the offsets either
\* side of where the placement test changes its answer
PointerXs ==
    {0, clientW} \cup
    ({e - TooltipOffset - TooltipBoxW + d : e \in {width, clientW}, d \in {0, 1}}
        \cap 0..clientW)
PointerYs ==
    {0, clientH} \cup
    ({e - TooltipOffset - TooltipBoxH + d : e \in {height, clientH}, d \in {0, 1}}
        \cap 0..clientH)

(***************************************************************************)
(* Zoom and pan: d3.zoom().scaleExtent([0.2, 5]) clamps the scale it is    *)
(* asked for and hands the handler the resulting transform.                *)
(***************************************************************************)
Min(a, b) == IF a < b THEN a ELSE b
Max(a, b) == IF a > b THEN a ELSE b

\* faulty variant: no scaleExtent
scaleUnclamped(k) == k

scaleExtent(k) == Max(ScaleMin, Min(ScaleMax, k))

zoomed(k, t) ==
    /\ k \in ZoomRequests /\ t \in PanOffsets
    /\ IF zoomBound
         THEN transform' = [k |-> scaleExtent(k), x |-> t.x, y |-> t.y]
         ELSE UNCHANGED transform
    /\ UNCHANGED <<loadVars, clientW, clientH, sizeVars, inputVars, domVars,
                   filterVars, simVars, nodeVars, gestures, panelVars,
                   lastClick, tipVars, scaleVars>>

(***************************************************************************)
(* Window resize: the container takes a new size; the listener, once       *)
(* installed, re-reads it, replaces the centering force and reheats.       *)
(***************************************************************************)
\* faulty variant: the force is replaced but the simulation is not reheated
onResizeNoReheat ==
    /\ width' = clientW'
    /\ height' = clientH'
    /\ center' = <<clientW' \div 2, clientH' \div 2>>
    /\ UNCHANGED <<simExists, alpha, alphaTarget, timerOn>>

onResize ==
    /\ width' = clientW'
    /\ height' = clientH'
    /\ center' = <<clientW' \div 2, clientH' \div 2>>
    /\ alpha' = ReheatAlpha
    /\ timerOn' = TRUE
    /\ UNCHANGED <<simExists, alphaTarget>>

resize(c) ==
    /\ c \in ContainerSizes
    /\ clientW' = c.w
    /\ clientH' = c.h
    /\ IF handlers THEN onResize ELSE UNCHANGED <<sizeVars, simVars>>
    /\ UNCHANGED <<loadVars, inputVars, domVars, filterVars, nodeVars,
                   gestures, transform, panelVars, lastClick, tipVars, scaleVars>>

(***************************************************************************)
(* Drag.  One d3.drag behaviour serves every node; it counts its active    *)
(* gestures (one per pointer) and passes the handlers event.active: the    *)
(* number of other gestures active at a start, of gestures left at an end. *)
(***************************************************************************)
active == Cardinality({q \in Pointers : gestures[q] # 0})

dragFrame ==
    UNCHANGED <<loadVars, clientW, clientH, sizeVars, inputVars, domVars,
                filterVars, simExists, alpha, center, pos, vel, transform,
                panelVars, lastClick, tipVars, scaleVars>>

dragStarted(eventActive, i) ==
    /\ IF eventActive = 0
         THEN alphaTarget' = DragAlphaTarget /\ timerOn' = TRUE
         ELSE UNCHANGED <<alphaTarget, timerOn>>
    /\ pin' = [pin EXCEPT ![i] = [fx |-> pos[i].x, fy |-> pos[i].y]]

dragged(eventX, eventY, i) ==
    /\ pin' = [pin EXCEPT ![i] = [fx |-> eventX, fy |-> eventY]]
    /\ UNCHANGED <<alphaTarget, timerOn>>

\* faulty variant: the end of a gesture never resets alphaTarget
dragEndedStaysWarm(eventActive, i) ==
    /\ pin' = [pin EXCEPT ![i] = NoPin]
    /\ UNCHANGED <<alphaTarget, timerOn>>

\* faulty variant: alphaTarget is reset without looking at event.active
dragEndedAlwaysCools(eventActive, i) ==
    /\ alphaTarget' = 0
    /\ pin' = [pin EXCEPT ![i] = NoPin]
    /\ UNCHANGED timerOn

dragEnded(eventActive, i) ==
    /\ IF eventActive = 0
         THEN alphaTarget' = 0
         ELSE UNCHANGED alphaTarget
    /\ pin' = [pin EXCEPT ![i] = NoPin]
    /\ UNCHANGED timerOn

\* pointer p goes down on node i
dragStart(p, i) ==
    /\ drawn
    /\ p \in Pointers /\ i \in NodeIx
    /\ gestures[p] = 0
    /\ gestures' = [gestures EXCEPT ![p] = i]
    /\ dragStarted(active, i)
    /\ dragFrame

\* pointer p moves; the subject is then at (ex, ey)
dragMove(p, e) ==
    /\ p \in Pointers /\ e \in Points
    /\ gestures[p] # 0
    /\ dragged(e.x, e.y, gestures[p])
    /\ UNCHANGED gestures
    /\ dragFrame

\* pointer p goes up
dragEnd(p) ==
    /\ p \in Pointers
    /\ gestures[p] # 0
    /\ gestures' = [gestures EXCEPT ![p] = 0]
    /\ dragEnded(active - 1, gestures[p])
    /\ dragFrame

(***************************************************************************)
(* One step of the simulation timer.  alpha moves toward alphaTarget (the  *)
(* decay rate is abstracted to one half per step); the forces move every   *)
(* unpinned node somewhere, a pinned node is put at its pin with velocity  *)
(* 0; the timer stops once alpha is below alphaMin.  The tick listener     *)
(* only copies positions to the screen.                                    *)
(***************************************************************************)
decay(a, target) ==
    IF a >= target THEN target + (a - target) \div 2
                   ELSE target - (target - a) \div 2

\* with no force registered and all velocities 0 nothing moves
settled(i, q) ==
    CASE pin[i].fx # Null -> q.x = pin[i].fx /\ q.y = pin[i].fy
      [] ~drawn -> q = pos[i]
      [] OTHER -> TRUE

tick ==
    /\ simExists /\ timerOn
    /\ alpha' = decay(alpha, alphaTarget)
    /\ timerOn' = (alpha' >= AlphaMin)
    /\ \E q \in [NodeIx -> Points] :
          /\ \A i \in NodeIx : settled(i, q[i])
          /\ pos' = [i \in NodeIx |-> q[i]]
          /\ vel' = [i \in NodeIx |->
                       IF pin[i].fx # Null
                         THEN [vx |-> 0, vy |-> 0]
                         ELSE [vx |-> q[i].x - pos[i].x,
                               vy |-> q[i].y - pos[i].y]]
    /\ UNCHANGED <<loadVars, clientW, clientH, sizeVars, inputVars, domVars,
                   filterVars, simExists, alphaTarget, center, pin, gestures,
                   transform, panelVars, lastClick, tipVars, scaleVars>>

(***************************************************************************)
(* The whole event loop on one short script of inputs: every handler       *)
(* interleaves with every other.                                           *)
(***************************************************************************)
CorePayloads == {GraphEmpty, GraphOne, GraphDangling}
CoreTerms == {<<>>, <<"d">>, <<"d", "d">>}
CorePointer == 1

Next ==
    \/ \E kind \in FetchFailures : fetchRejected(kind)
    \/ \E g \in CorePayloads : render(g)
    \/ \E t \in CoreTerms : searchInputEvent(t)
    \/ \E d \in {""} \cup deptOptions : filterDeptChange(d)
    \/ \E i \in NodeIx : nodeClick(i)
    \/ canvasClick
    \/ \E k \in ZoomRequests, t \in PanOffsets : zoomed(k, t)
    \/ \E c \in ContainerSizes : resize(c)
    \/ \E i \in NodeIx : dragStart(CorePointer, i)
    \/ \E e \in Points : dragMove(CorePointer, e)
    \/ dragEnd(CorePointer)
    \/ tick

Spec == Init /\ [][Next]_vars

(***************************************************************************)
(* Filtering and the detail panel on every payload, the layout at rest.    *)
(***************************************************************************)
NextFilter ==
    \/ \E kind \in FetchFailures : fetchRejected(kind)
    \/ \E g \in Payloads : render(g)
    \/ \E t \in Terms : searchInputEvent(t)
    \/ \E d \in {""} \cup deptOptions : filterDeptChange(d)
    \/ \E a \in {""} \cup archOptions : filterArchChange(a)
    \/ \E i \in NodeIx : nodeClick(i)
    \/ canvasClick
    \/ closeClick

SpecFilter == Init /\ [][NextFilter]_vars

(***************************************************************************)
(* The layout in motion: load, drag gestures of several pointers, ticks    *)
(* and resize.                                                             *)
(***************************************************************************)
NextDrag ==
    \/ \E g \in Payloads : render(g)
    \/ \E p \in Pointers, i \in NodeIx : dragStart(p, i)
    \/ \E p \in Pointers, e \in Points : dragMove(p, e)
    \/ \E p \in Pointers : dragEnd(p)
    \/ tick
    \/ \E c \in ContainerSizes : resize(c)

SpecDrag == Init /\ [][NextDrag]_vars

\* drag, tick and resize on the short payloads, with the timer's callback
\* fair: while the timer runs the host calls its callback again, however
\* many input events arrive between
NextLive ==
    \/ \E g \in CorePayloads : render(g)
    \/ \E p \in Pointers, i \in NodeIx : dragStart(p, i)
    \/ \E p \in Pointers, e \in Points : dragMove(p, e)
    \/ \E p \in Pointers : dragEnd(p)
    \/ tick
    \/ \E c \in ContainerSizes : resize(c)

SpecLive == Init /\ [][NextLive]_vars /\ WF_vars(tick)

\* the tooltip alone, over a container that may be resized at any time
NextTip ==
    \/ \E g \in CorePayloads : render(g)
    \/ \E c \in ContainerSizes : resize(c)
    \/ \E i \in 1..2 : mouseenter(i)
    \/ \E px \in PointerXs, py \in PointerYs : mousemove(px, py)
    \/ mouseleave

SpecTip == Init /\ [][NextTip]_vars

\* the scales: graphs with several counts and weights under every handler
\* that runs after render, the layout not ticking
NextScale ==
    \/ \E g \in ScalePayloads : render(g)
    \/ \E t \in CoreTerms : searchInputEvent(t)
    \/ \E d \in {""} \cup deptOptions : filterDeptChange(d)
    \/ \E k \in ZoomRequests, t \in PanOffsets : zoomed(k, t)
    \/ \E c \in ContainerSizes : resize(c)
    \/ \E i \in NodeIx : dragStart(CorePointer, i)
    \/ \E e \in Points : dragMove(CorePointer, e)
    \/ dragEnd(CorePointer)

SpecScale == Init /\ [][NextScale]_vars

\* the handlers that only change how the graph is shown, next to the drag
\* and the timer that move it; the container keeps its size
NextQuiet ==
    \/ \E g \in CorePayloads : render(g)
    \/ \E t \in CoreTerms : searchInputEvent(t)
    \/ \E d \in {""} \cup deptOptions : filterDeptChange(d)
    \/ \E i \in NodeIx : mouseenter(i)
    \/ \E px \in {0, clientW} : mousemove(px, 0)
    \/ mouseleave
    \/ \E i \in NodeIx : nodeClick(i)
    \/ canvasClick
    \/ closeClick
    \/ \E i \in NodeIx : dragStart(CorePointer, i)
    \/ \E e \in Points : dragMove(CorePointer, e)
    \/ dragEnd(CorePointer)
    \/ tick

SpecQuiet == Init /\ [][NextQuiet]_vars

(***************************************************************************)
(* Properties.                                                             *)
(***************************************************************************)

\* the name contains the term at some offset, letter case ignored
ContainsIgnoringCase(name, term) ==
    \E off \in 0..(Len(name) - Len(term)) :
        \A k \in 1..Len(term) : LowerChar(name[off + k]) = LowerChar(term[k])

\* applyFilters ran at least once: every node group has a target opacity
FiltersApplied == drawn /\ \A i \in NodeIx : opacity[i] # NoAttr

PassesFilters(i) ==
    /\ searchValue = <<>> \/ ContainsIgnoringCase(nodes[i].name, searchValue)
    /\ deptValue = "" \/ deptValue = nodes[i].department
    /\ archValue = "" \/ archValue = nodes[i].archetype

MatchesSearch(i) ==
    searchValue # <<>> /\ ContainsIgnoringCase(nodes[i].name, searchValue)

\* C1: once a filter input changed on a rendered graph, a node's target
\* opacity is 1 exactly when it passes the search, department and archetype
\* filters (each empty or matching), and 0.08 otherwise.
C1_OpacityFollowsFilters ==
    FiltersApplied =>
        \A i \in NodeIx :
            /\ opacity[i] \in {FullOpacity, DimOpacity}
            /\ opacity[i] = FullOpacity <=> PassesFilters(i)

\* a search and a department filter are set; one node passes, one is dimmed
C1_Witness ==
    /\ FiltersApplied
    /\ searchValue # <<>> /\ deptValue # ""
    /\ \E i, j \in NodeIx :
          opacity[i] = FullOpacity /\ opacity[j] = DimOpacity

\* C2: once a filter input changed, the emphasized ring (stroke-opacity 1,
\* width 4) is on exactly the nodes whose name contains the non-empty search
\* term, whatever the department and archetype filters; every other node has
\* the baseline ring (0.3, 2).
C2_RingFollowsSearch ==
    FiltersApplied =>
        \A i \in NodeIx :
            IF MatchesSearch(i)
              THEN ringOpacity[i] = RingOpacityHi /\ ringWidth[i] = RingWidthHi
              ELSE ringOpacity[i] = RingOpacityBase
                   /\ ringWidth[i] = RingWidthBase

\* one node is highlighted while dimmed by the department filter, another
\* node has the baseline ring
C2_Witness ==
    /\ FiltersApplied
    /\ \E i, j \in NodeIx :
          /\ ringOpacity[i] = RingOpacityHi /\ opacity[i] = DimOpacity
          /\ ringWidth[j] = RingWidthBase

FilterInputChange ==
    \/ \E t \in Terms : searchInputEvent(t)
    \/ \E d \in {""} \cup deptOptions : filterDeptChange(d)
    \/ \E a \in {""} \cup archOptions : filterArchChange(a)

FiltersCleared == searchValue = <<>> /\ deptValue = "" /\ archValue = ""

AllBaseline ==
    \A i \in NodeIx :
        /\ opacity[i] = FullOpacity
        /\ ringOpacity[i] = RingOpacityBase
        /\ ringWidth[i] = RingWidthBase

\* C3: a filter input change that leaves search, department and archetype
\* all cleared puts every node at full opacity with the baseline ring,
\* whatever was applied before.
C3_ClearedRestoresBaseline ==
    [][(handlers /\ FilterInputChange /\ FiltersCleared') => AllBaseline']_vars

\* filters were applied and are now all cleared, both nodes back to baseline
C3_Witness ==
    /\ FiltersApplied /\ FiltersCleared
    /\ Len(nodes) = 2
    /\ AllBaseline

\* C5: the panel is open exactly when the latest click (node, canvas or
\* close control) was a node click, and then shows that node and no other.
C5_PanelFollowsLastClick ==
    /\ sidebarOpen <=> lastClick.kind = "node"
    /\ sidebarOpen => sidebarContent = lastClick.node

\* the panel is open on the second node clicked, which is dimmed
C5_Witness ==
    /\ sidebarOpen
    /\ \E i \in NodeIx :
          /\ nodes[i].id = sidebarContent
          /\ i > 1
          /\ opacity[i] = DimOpacity

Dragging(i) == \E p \in Pointers : gestures[p] = i

\* C4: in every state a node has fx and fy set exactly while some drag
\* gesture on it is in progress, and has both cleared otherwise.
C4_PinnedExactlyWhileDragged ==
    \A i \in 1..Len(pin) :
        IF Dragging(i)
          THEN pin[i].fx # Null /\ pin[i].fy # Null
          ELSE pin[i].fx = Null /\ pin[i].fy = Null

ContainerResized == <<clientW, clientH>>' # <<clientW, clientH>>

\* C6: a container resize after render points the centering force at the
\* centre of the new size and reheats the simulation (alpha 0.3, timer
\* restarted); it leaves the zoom transform, the filter inputs, the nodes'
\* opacity and ring, the panel and the pins as they were.
C6_ResizeRecentersAndReheats ==
    [][(handlers /\ ContainerResized) =>
          /\ center' = <<clientW' \div 2, clientH' \div 2>>
          /\ alpha' = ReheatAlpha
          /\ timerOn'
          /\ UNCHANGED <<transform, inputVars, filterVars, panelVars, pin>>
      ]_vars

\* after a resize: reheated around the container's centre, with a zoomed and
\* panned scene, an active search, an open panel and a pinned node
C6_Witness ==
    /\ handlers
    /\ clientW = width /\ clientH = height
    /\ center = <<clientW \div 2, clientH \div 2>>
    /\ alpha = ReheatAlpha /\ timerOn
    /\ transform.k # 10 /\ transform.x # 0
    /\ searchValue # <<>> /\ sidebarOpen
    /\ \E i \in NodeIx : pin[i].fx # Null /\ opacity[i] = DimOpacity

\* nothing of the visualization exists
Unrendered ==
    /\ ~placeholder /\ ~sceneGroups /\ ~zoomBound /\ ~drawn /\ ~handlers
    /\ deptOptions = {} /\ archOptions = {} /\ legend = {}
    /\ ~simExists /\ ~timerOn
    /\ opacity = <<>> /\ linkOpacity = <<>>
    /\ transform = [k |-> 10, x |-> 0, y |-> 0]
    /\ ~sidebarOpen

\* C7: after a failed fetch or an unparsable body the failure is logged once,
\* nothing is rendered, now or under any later event, and the fetch is
\* not retried.
C7_FetchFailureLeavesUnrendered ==
    /\ [](fetchState = "rejected" =>
              /\ errorLog = <<LogEntry>>
              /\ nodes = <<>>
              /\ Unrendered)
    /\ [][fetchState = "rejected" => fetchState' = "rejected"]_vars

\* the fetch failed; since then the user typed, clicked and resized
C7_Witness ==
    /\ fetchState = "rejected"
    /\ searchValue # <<>>
    /\ lastClick.kind = "canvas"
    /\ clientW # width

DanglingLink ==
    \E j \in 1..Len(links) :
        \/ links[j].source \notin {nodes[i].id : i \in NodeIx}
        \/ links[j].target \notin {nodes[i].id : i \in NodeIx}

\* C8: a payload with a link to a missing node is a fatal load error: it is
\* reported and the visualization is left unrendered (no legend entry, filter
\* option, scene group, drawn element or running simulation).
C8_DanglingLinkLeavesUnrendered ==
    (fetchState = "resolved" /\ DanglingLink) =>
        /\ errorLog # <<>>
        /\ Unrendered

EmptyLoaded == fetchState = "resolved" /\ nodes = <<>>

\* C9: a payload with no nodes shows the placeholder and nothing else: no
\* simulation (so no tick), scene group, legend entry or filter option, and
\* no later filter, click, zoom or resize event changes anything or fails.
C9_EmptyGraphShowsOnlyPlaceholder ==
    /\ [](EmptyLoaded =>
              /\ placeholder
              /\ errorLog = <<>>
              /\ ~sceneGroups /\ ~zoomBound /\ ~drawn /\ ~handlers
              /\ deptOptions = {} /\ archOptions = {} /\ legend = {}
              /\ ~simExists /\ ~timerOn /\ ~ENABLED tick)
    /\ [][EmptyLoaded =>
              UNCHANGED <<loadVars, sizeVars, domVars, filterVars, simVars,
                          nodeVars, gestures, transform, panelVars>>]_vars

\* the empty graph was loaded; since then the user typed, clicked and resized
C9_Witness ==
    /\ EmptyLoaded /\ placeholder
    /\ searchValue # <<>>
    /\ lastClick.kind = "canvas"
    /\ clientW # width

PlacedAt(p, edge, box, flip) ==
    IF p + TooltipOffset + box > edge THEN p + TooltipOffset - flip
                                      ELSE p + TooltipOffset

\* C11: for every pointer position inside the container, of its current
\* width and height, the tooltip goes to pointer + 16 on each axis unless its
\* nominal 200 x 180 box would pass the container's right (bottom) edge, and
\* to the flipped position then; the box never extends past the container's
\* right or bottom edge.
C11_TooltipInsideContainer ==
    [][\A px \in PointerXs, py \in PointerYs :
          mousemove(px, py) =>
              /\ tooltipLeft' = PlacedAt(px, clientW, TooltipBoxW, TooltipFlipX)
              /\ tooltipTop' = PlacedAt(py, clientH, TooltipBoxH, TooltipFlipY)
              /\ tooltipLeft' + TooltipBoxW <= clientW
              /\ tooltipTop' + TooltipBoxH <= clientH]_vars

\* the same placement holds wherever the script's width and height are the
\* container's
C11_InsideWhenSizeCurrent ==
    [][\A px \in PointerXs, py \in PointerYs :
          (mousemove(px, py) /\ width = clientW /\ height = clientH) =>
              /\ tooltipLeft' = PlacedAt(px, clientW, TooltipBoxW, TooltipFlipX)
              /\ tooltipTop' = PlacedAt(py, clientH, TooltipBoxH, TooltipFlipY)
              /\ tooltipLeft' + TooltipBoxW <= clientW
              /\ tooltipTop' + TooltipBoxH <= clientH]_vars

\* C12: on a rendered graph (counts >= 0, weights >= 1) the node radius is
\* non-decreasing in collab_count and within [6, 22], the link width is
\* non-decreasing in weight and within [1.5, 6], and neither scale nor what
\* was drawn from it changes under search, filter, drag, zoom or resize.
C12_ScalesMonotoneBoundedFixed ==
    /\ [](drawn =>
            /\ \A i \in NodeIx :
                  /\ RadiusMin <= nodeR[i] /\ nodeR[i] <= RadiusMax
                  /\ \A j \in NodeIx :
                        nodes[i].collab_count <= nodes[j].collab_count
                            => nodeR[i] <= nodeR[j]
            /\ \A a \in 1..Len(links) :
                  /\ LinkWidthMin <= linkW[a] /\ linkW[a] <= LinkWidthMax
                  /\ \A b \in 1..Len(links) :
                        links[a].weight <= links[b].weight
                            => linkW[a] <= linkW[b])
    /\ [][drawn => UNCHANGED scaleVars]_vars

\* three nodes of three radii and three links of three widths, with a search
\* typed, the scene zoomed, a node pinned by a drag and the container resized
C12_Witness ==
    /\ drawn
    /\ \E i, j, k \in NodeIx : nodeR[i] < nodeR[j] /\ nodeR[j] < nodeR[k]
    /\ \E a, b, c \in 1..Len(links) : linkW[a] < linkW[b] /\ linkW[b] < linkW[c]
    /\ searchValue # <<>> /\ FiltersApplied
    /\ transform.k # 10
    /\ \E i \in NodeIx : pin[i].fx # Null
    /\ alpha = ReheatAlpha

\* C18: on every rendered graph, also one whose nodes share one
\* collab_count and one whose links all have weight 1, neither scale has a
\* zero-width domain: a node with collab_count 0 has the minimum radius 6 and
\* a link of weight 1 the minimum width 1.5.
C18_ScaleEndpoints ==
    drawn =>
        /\ \A i \in NodeIx :
              nodes[i].collab_count = 0 => nodeR[i] = RadiusMin
        /\ \A j \in 1..Len(links) :
              links[j].weight = 1 => linkW[j] = LinkWidthMin

\* C13: after a filter input change that leaves at least one of search,
\* department and archetype set, every link has the one reduced opacity 0.25,
\* whether its endpoints are visible or dimmed.
C13_LinksUniformlyDimmed ==
    (FiltersApplied /\ ~FiltersCleared) =>
        \A j \in 1..Len(links) : linkOpacity[j] = LinkDimOpacity

\* a search is active that both endpoints of a link pass
C13_Witness ==
    /\ FiltersApplied /\ searchValue # <<>>
    /\ \E j \in 1..Len(links) :
          /\ linkOpacity[j] = LinkDimOpacity
          /\ \A i \in NodeIx :
                nodes[i].id \in {links[j].source, links[j].target}
                    => opacity[i] = FullOpacity

\* C14: once the simulation exists, alphaTarget is 0.3 exactly while at least
\* one drag gesture is in progress and 0 otherwise; the first drag start
\* raises it and restarts the timer, the end of the last gesture restores 0.
\* Overlapping gestures of several pointers and resizes during a drag are
\* among the steps.
C14_AlphaTargetFollowsGestures ==
    /\ [](simExists =>
            alphaTarget = IF active > 0 THEN DragAlphaTarget ELSE 0)
    /\ [][(active = 0 /\ active' > 0) =>
              (alphaTarget' = DragAlphaTarget /\ timerOn')]_vars
    /\ [][(active > 0 /\ active' = 0) => alphaTarget' = 0]_vars

\* of two gestures on one node the first has ended and the second goes on
C14_Witness ==
    /\ active = 1
    /\ \E i \in NodeIx : Dragging(i) /\ pin[i] = NoPin
    /\ alphaTarget = DragAlphaTarget /\ timerOn

\* the timer half of C15: with a gesture in progress the timer is running
C15_TimerRunsWhileDragged ==
    (simExists /\ active > 0) => timerOn

\* C15: while a drag gesture is in progress the simulation is never idle,
\* and after each tick every dragged node is at its pinned position, the
\* latest pointer position; so also for a drag started on an idle simulation.
C15_DraggedNodeFollowsPointer ==
    /\ []((simExists /\ active > 0) => timerOn)
    /\ [][tick =>
            \A i \in NodeIx :
                Dragging(i) =>
                    /\ pin[i] # NoPin
                    /\ pos'[i] = [x |-> pin[i].fx, y |-> pin[i].fy]]_vars

ResizeEvent == \E c \in ContainerSizes : resize(c)

\* C16: the simulation created by render starts settling (alpha 1, timer
\* running), and with the timer ticking fairly it becomes and stays idle
\* whenever from some point on no drag gesture is in progress and no resize
\* occurs: after the initial load, after the last drag ends, after a resize.
C16_EventuallyIdle ==
    /\ [][(~simExists /\ simExists') =>
              (timerOn' /\ alpha' = AlphaInit /\ alphaTarget' = 0)]_vars
    /\ (<>[](active = 0) /\ <>[][~ResizeEvent]_vars) => <>[](~timerOn)

\* the layout came to rest, no gesture in progress, with a node moved from
\* where render put it
C16_Witness ==
    /\ drawn /\ ~timerOn /\ alpha < AlphaMin /\ alphaTarget = 0
    /\ active = 0
    /\ \E i \in NodeIx : pos[i] # InitPos(i)

\* a step that changes a filter input, a node's or link's filter style, the
\* tooltip or the detail panel, or is a click, after the load
ShownOnlyStep ==
    /\ fetchState' = fetchState
    /\ \/ inputVars' # inputVars
       \/ filterVars' # filterVars
       \/ tipVars' # tipVars
       \/ panelVars' # panelVars
       \/ lastClick' # lastClick

DragStep ==
    \E p \in Pointers :
        \/ \E i \in NodeIx : dragStart(p, i)
        \/ \E e \in Points : dragMove(p, e)
        \/ dragEnd(p)

ShownOpacity(i) == IF opacity[i] = NoAttr THEN FullOpacity ELSE opacity[i]

\* C19: in every state after a non-empty graph is rendered, each node's
\* opacity and ring agree with the current search, department and archetype
\* inputs, however the input events interleave with the load; a term typed
\* before the load completed is one such interleaving.
C19_StyleAgreesWithInputs ==
    drawn =>
        \A i \in NodeIx :
            /\ ShownOpacity(i) = IF PassesFilters(i) THEN FullOpacity
                                                     ELSE DimOpacity
            /\ ringOpacity[i] = IF MatchesSearch(i) THEN RingOpacityHi
                                                    ELSE RingOpacityBase
            /\ ringWidth[i] = IF MatchesSearch(i) THEN RingWidthHi
                                                  ELSE RingWidthBase

\* C20: in every state after a non-empty graph is rendered, the centering
\* force's target and the width and height used to place the tooltip are
\* those of the container's current size, however resize events interleave
\* with the load; a resize between script start and the load is one such
\* interleaving.
C20_SizeIsCurrent ==
    drawn =>
        /\ width = clientW /\ height = clientH
        /\ center = <<clientW \div 2, clientH \div 2>>

====
